---------------------------- MODULE Spec2Model ----------------------------
(***************************************************************************)
(* Model of .github/scripts/format-test-catalog.py: the script body under  *)
(* `if __name__ == "__main__"` and the function yaml_to_all_tests.         *)
(*                                                                         *)
(* Text is modelled character by character: a Python str is a sequence of  *)
(* one-character strings, and the content of the output file is the        *)
(* sequence of characters written to it.  Class and method names are the   *)
(* identifiers of test classes and methods: they hold neither "#" nor a    *)
(* line break.                                                             *)
(***************************************************************************)
EXTENDS Integers, Sequences, FiniteSets, TLC

VARIABLES
    entry,        \* "cli": the script is run; "call": yaml_to_all_tests is called
    env,          \* value of GITHUB_WORKSPACE (Unset when absent)
    argv,         \* the command line: [valid, paths, output]
    fs,           \* input files: path -> what open + yaml.safe_load make of it
    enum,         \* order in which the platform enumerates the catalog tree
    prior,        \* the output files as they were before the first run
    outFiles,     \* output files: path -> [exists, data]
    pc,           \* position in the program
    args,         \* argparse Namespace [path, output_file]
    glob_paths,   \* parameter of yaml_to_all_tests
    out_file,     \* parameter of yaml_to_all_tests
    yamls,        \* list of resolved files
    fi,           \* index of yaml_file in yamls (0 before the loop)
    tests,        \* result of yaml.safe_load for the current file
    ci,           \* index of (clazz, methods) in tests.items()
    mi,           \* index of method in the iteration of methods
    class_count,
    method_count,
    openFiles,    \* stack of the open with-blocks' handles
    trace,        \* the filesystem calls made so far, in order
    stdout,       \* what print() wrote
    stderr,       \* what the logger wrote
    exitCode,     \* << >> while running, <<status>> once the process has exited
    exc,          \* the exception that ended the run ("" if none)
    runs,         \* number of the current run of yaml_to_all_tests
    history       \* output file content after each completed run

vars == << entry, env, argv, fs, enum, prior, outFiles, pc, args, glob_paths,
           out_file, yamls, fi, tests, ci, mi, class_count, method_count,
           openFiles, trace, stdout, stderr, exitCode, exc, runs, history >>

(***************************************************************************)
(* Bounds                                                                  *)
(***************************************************************************)
MaxPatterns == 2      \* longest list of glob patterns
MaxRuns == 2          \* successive runs of yaml_to_all_tests

(***************************************************************************)
(* Values                                                                  *)
(***************************************************************************)
None == [some |-> FALSE, val |-> << >>]
Some(x) == [some |-> TRUE, val |-> x]

NoneStr == [some |-> FALSE, val |-> ""]
Unset == "<unset>"

DefaultPattern == "test-catalog/**/*.yaml"
DefaultOutput == "combined-test-catalog.txt"
OtherOutput == "out.txt"
OutPaths == {DefaultOutput, OtherOutput}

FileA == "test-catalog/a.yaml"
FileB == "test-catalog/m/b.yaml"
Files == {FileA, FileB}
Patterns == {DefaultPattern, FileA, "none/*.yaml"}

RECURSIVE SeqsUpTo(_, _)
SeqsUpTo(S, n) ==
    IF n = 0 THEN {<< >>}
    ELSE LET shorter == SeqsUpTo(S, n - 1)
         IN  shorter \cup {Append(s, x) : s \in shorter, x \in S}

PatternLists == SeqsUpTo(Patterns, MaxPatterns) \ {<< >>}

\* str values
Foo == <<"F", "o", "o">>
Bar == <<"B", "a", "r">>
a == <<"a">>
b == <<"b">>

\* what a class key maps to
SeqV(elems) == [t |-> "seq", elems |-> elems, chars |-> << >>]
StrV(chars) == [t |-> "str", elems |-> << >>, chars |-> chars]
NullV == [t |-> "null", elems |-> << >>, chars |-> << >>]
Item(k, v) == [k |-> k, v |-> v]

\* what open + yaml.safe_load make of a file
Map(items) == [kind |-> "map", items |-> items]
NotMap(kind) == [kind |-> kind, items |-> << >>]

ValidDocs ==
    { Map(<< >>),
      Map(<< Item(Foo, SeqV(<<a, b>>)) >>),
      Map(<< Item(Foo, SeqV(<<a>>)) >>),
      Map(<< Item(Foo, SeqV(<<b>>)), Item(Bar, SeqV(<<b, a>>)) >>),
      Map(<< Item(Bar, SeqV(<< >>)), Item(Foo, SeqV(<<a, a>>)) >>) }

IllDocs ==
    { NotMap("unreadable"), NotMap("invalid_yaml"),
      NotMap("empty"),            \* an empty document: safe_load returns None
      NotMap("not_a_dict"),       \* a top-level list or scalar
      Map(<< Item(Foo, StrV(<<"a", "b">>)) >>),
      Map(<< Item(Foo, SeqV(<<a>>)), Item(Bar, NullV) >>) }

Docs == ValidDocs \cup IllDocs

Priors ==
    { [exists |-> FALSE, data |-> << >>],
      [exists |-> TRUE, data |-> <<"X", "#", "y", "\n">>] }

Argvs ==
    { [valid |-> v, paths |-> ps, output |-> o] :
        v \in {TRUE}, ps \in SeqsUpTo(Patterns, MaxPatterns),
        o \in {NoneStr, Some(OtherOutput)} }
    \cup { [valid |-> FALSE, paths |-> << >>, output |-> NoneStr] }

NoArgv == [valid |-> TRUE, paths |-> << >>, output |-> NoneStr]
NoArgs == [path |-> None, output_file |-> ""]
NoDoc == NotMap("unbound")

(***************************************************************************)
(* Pure helpers                                                            *)
(***************************************************************************)
\* slip: tests `is None` only, so an empty value passes
TruthyIsSet(v) == v # Unset

\* os.getenv(name) is falsy when the variable is absent or empty
Truthy(v) == v # Unset /\ v # ""

\* getattr on an argparse Namespace
HasAttr(ns, name) == name \in DOMAIN ns

\* glob(pathname=path, recursive=True) on the modelled tree
Glob(path) ==
    IF path = DefaultPattern THEN enum
    ELSE IF path \in Files THEN <<path>>
    ELSE << >>

\* slip: collects the matches in a set, so a file is kept once
RECURSIVE DistinctFrom(_, _)
DistinctFrom(paths, seen) ==
    IF paths = << >> THEN << >>
    ELSE LET new == SelectSeq(Glob(Head(paths)), LAMBDA f : f \notin seen)
         IN  new \o DistinctFrom(Tail(paths), seen \cup {new[i] : i \in 1..Len(new)})

ExtendAllDistinct(paths) == DistinctFrom(paths, {})

\* the loop of lines 35-36: yamls.extend(glob(...)) for each path
RECURSIVE ExtendAll(_)
ExtendAll(paths) ==
    IF paths = << >> THEN << >>
    ELSE Glob(Head(paths)) \o ExtendAll(Tail(paths))

\* the filesystem calls of that loop
GlobCalls(paths) == [i \in 1..Len(paths) |-> [op |-> "glob", path |-> paths[i]]]

\* slip: iterates methods[1:]
IterateSkipFirst(v) ==
    LET all == IF v.t = "seq" THEN v.elems
               ELSE [i \in 1..Len(v.chars) |-> <<v.chars[i]>>]
    IN  IF all = << >> THEN all ELSE Tail(all)

\* what `for method in methods` iterates over
Iterate(v) ==
    IF v.t = "seq" THEN v.elems
    ELSE [i \in 1..Len(v.chars) |-> <<v.chars[i]>>]

\* slip: the newline is left out of the f-string
FormatLineNoNewline(clazz, method) == clazz \o <<"#">> \o method

\* f"{clazz}#{method}\n"
FormatLine(clazz, method) == clazz \o <<"#">> \o method \o <<"\n">>

\* slip: mode "a" keeps what the file held
OpenAppend(f) == [exists |-> TRUE, data |-> f.data]

\* open(out_file, "w")
OpenW(f) == [exists |-> TRUE, data |-> << >>]

\* slip: the file is reopened with "w" for each write
WriteOver(f, s) == [f EXCEPT !.data = s]

\* fp.write(s)
Write(f, s) == [f EXCEPT !.data = f.data \o s]

inputs == << entry, env, argv, fs, enum, prior >>
params == << glob_paths, out_file >>
cursor == << fi, tests, ci, mi >>
counters == << class_count, method_count >>

\* an exception nobody catches: the with-blocks close their files; a script
\* dies with status 1, a caller of the function sees the exception
Raise(e) ==
    /\ exc' = e
    /\ openFiles' = << >>
    /\ pc' = IF entry = "cli" THEN "exit" ELSE "raised"
    /\ exitCode' = IF entry = "cli" THEN <<1>> ELSE exitCode

(***************************************************************************)
(* Initial states                                                          *)
(***************************************************************************)
Init ==
    /\ entry \in {"cli", "call"}
    /\ fs \in [Files -> Docs]
    /\ enum \in {<<FileA, FileB>>, <<FileB, FileA>>}
    /\ prior \in Priors
    /\ outFiles = [p \in OutPaths |-> prior]
    /\ IF entry = "cli"
       THEN /\ env \in {Unset, "", "/home/runner/work/kafka"}
            /\ argv \in Argvs
            /\ glob_paths = << >>
            /\ out_file = ""
            /\ pc = "l67"
       ELSE /\ env = "/home/runner/work/kafka"
            /\ argv = NoArgv
            /\ glob_paths \in PatternLists
            /\ out_file \in OutPaths
            /\ pc = "l33"
    /\ args = NoArgs
    /\ yamls = << >>
    /\ fi = 0
    /\ tests = NoDoc
    /\ ci = 0
    /\ mi = 0
    /\ class_count = 0
    /\ method_count = 0
    /\ openFiles = << >>
    /\ trace = << >>
    /\ stdout = << >>
    /\ stderr = << >>
    /\ exitCode = << >>
    /\ exc = ""
    /\ runs = 1
    /\ history = << >>

(***************************************************************************)
(* The script body, lines 54-76                                            *)
(***************************************************************************)
\* lines 67-69
CheckEnv ==
    /\ pc = "l67"
    /\ IF Truthy(env)
       THEN /\ pc' = "l71"
            /\ UNCHANGED << stdout, exitCode >>
       ELSE /\ stdout' = Append(stdout, "This script is intended to by run by GitHub Actions.")
            /\ exitCode' = <<1>>
            /\ pc' = "exit"
    /\ UNCHANGED << inputs, outFiles, args, params, yamls, cursor, counters,
                    openFiles, trace, stderr, exc, runs, history >>

\* line 71: parser.parse_args()
ParseArgs ==
    /\ pc = "l71"
    /\ IF argv.valid
       THEN /\ args' = [path |-> IF argv.paths = << >> THEN None
                                   ELSE Some(argv.paths),
                         output_file |-> IF argv.output.some THEN argv.output.val
                                         ELSE DefaultOutput]
            /\ pc' = "l72"
            /\ UNCHANGED << stderr, exitCode >>
       ELSE /\ stderr' = Append(stderr, [msg |-> "usage", v |-> << >>])
            /\ exitCode' = <<2>>
            /\ pc' = "exit"
            /\ UNCHANGED args
    /\ UNCHANGED << inputs, outFiles, params, yamls, cursor, counters,
                    openFiles, trace, stdout, exc, runs, history >>

\* lines 72-73
DefaultPath ==
    /\ pc = "l72"
    /\ args' = IF ~args.path.some
               THEN [args EXCEPT !.path = Some(<<DefaultPattern>>)]
               ELSE args
    /\ pc' = "l74"
    /\ UNCHANGED << inputs, outFiles, params, yamls, cursor, counters, openFiles,
                    trace, stdout, stderr, exitCode, exc, runs, history >>

\* lines 74-76: line 74 reads args.paths; lines 75-76 log args.path and
\* call yaml_to_all_tests(args.path, args.output_file)
ReadPathsAndCall ==
    /\ pc = "l74"
    /\ IF HasAttr(args, "paths")
       THEN /\ stderr' = Append(stderr, [msg |-> "Passed paths", v |-> args.path.val])
            /\ glob_paths' = args.path.val
            /\ out_file' = args.output_file
            /\ pc' = "l33"
            /\ UNCHANGED << exc, openFiles, exitCode >>
       ELSE /\ Raise("AttributeError")
            /\ UNCHANGED << stderr, params >>
    /\ UNCHANGED << inputs, outFiles, args, yamls, cursor, counters,
                    trace, stdout, runs, history >>

(***************************************************************************)
(* yaml_to_all_tests, lines 32-51                                          *)
(***************************************************************************)
\* lines 33-40: expand the patterns, reset the counters
ExpandGlobs ==
    /\ pc = "l33"
    /\ yamls' = ExtendAll(glob_paths)
    /\ trace' = trace \o GlobCalls(glob_paths)
    /\ stderr' = stderr \o << [msg |-> "Received paths", v |-> glob_paths],
                              [msg |-> "Found", v |-> <<Len(yamls')>>] >>
    /\ class_count' = 0
    /\ method_count' = 0
    /\ pc' = "l41"
    /\ UNCHANGED << inputs, outFiles, args, params, cursor, openFiles,
                    stdout, exitCode, exc, runs, history >>

\* line 41: with open(out_file, "w") as fp (the path is one that can be
\* created; what fp.write hands over is taken as the file's content)
OpenOutput ==
    /\ pc = "l41"
    /\ outFiles' = [outFiles EXCEPT ![out_file] = OpenW(@)]
    /\ openFiles' = <<out_file>>
    /\ trace' = Append(trace, [op |-> "open_w", path |-> out_file])
    /\ fi' = 0
    /\ pc' = "l42"
    /\ UNCHANGED << inputs, args, params, yamls, tests, ci, mi, counters,
                    stdout, stderr, exitCode, exc, runs, history >>

\* lines 42-43: next yaml_file, with open(yaml_file, "r"); when the list is
\* exhausted the with-block of line 41 closes fp
NextFile ==
    /\ pc = "l42"
    /\ IF fi = Len(yamls)
       THEN /\ openFiles' = << >>
            /\ trace' = Append(trace, [op |-> "close", path |-> out_file])
            /\ pc' = "l51"
            /\ UNCHANGED << fi, exc, exitCode >>
       ELSE /\ fi' = fi + 1
            /\ trace' = Append(trace, [op |-> "open_r", path |-> yamls[fi + 1]])
            /\ IF fs[yamls[fi + 1]].kind = "unreadable"
               THEN Raise("PermissionError")
               ELSE /\ openFiles' = Append(openFiles, yamls[fi + 1])
                    /\ pc' = "l44"
                    /\ UNCHANGED << exc, exitCode >>
    /\ UNCHANGED << inputs, outFiles, args, params, yamls, tests, ci, mi,
                    counters, stdout, stderr, runs, history >>

\* line 44: tests = yaml.safe_load(yamp_fp)
Load ==
    /\ pc = "l44"
    /\ IF fs[yamls[fi]].kind = "invalid_yaml"
       THEN /\ Raise("YAMLError")
            /\ UNCHANGED tests
       ELSE /\ tests' = fs[yamls[fi]]
            /\ pc' = "l45"
            /\ UNCHANGED << exc, openFiles, exitCode >>
    /\ UNCHANGED << inputs, outFiles, args, params, yamls, fi, ci, mi, counters,
                    trace, stdout, stderr, runs, history >>

\* line 45: tests.items()
Items ==
    /\ pc = "l45"
    /\ IF tests.kind = "map"
       THEN /\ ci' = 0
            /\ pc' = "l45_next"
            /\ UNCHANGED << exc, openFiles, exitCode >>
       ELSE /\ Raise("AttributeError")
            /\ UNCHANGED ci
    /\ UNCHANGED << inputs, outFiles, args, params, yamls, fi, tests, mi,
                    counters, trace, stdout, stderr, runs, history >>

\* slip: class_count += 1 placed so that only classes with methods count
NextClassCountsNonEmpty ==
    /\ pc = "l45_next"
    /\ IF ci = Len(tests.items)
       THEN /\ openFiles' = SubSeq(openFiles, 1, Len(openFiles) - 1)
            /\ trace' = Append(trace, [op |-> "close", path |-> yamls[fi]])
            /\ pc' = "l42"
            /\ UNCHANGED << ci, mi, class_count, exc, exitCode >>
       ELSE /\ ci' = ci + 1
            /\ IF tests.items[ci + 1].v.t = "null"
               THEN /\ Raise("TypeError")
                    /\ UNCHANGED << mi, class_count >>
               ELSE /\ mi' = 0
                    /\ class_count' = IF Iterate(tests.items[ci + 1].v) = << >>
                                      THEN class_count ELSE class_count + 1
                    /\ pc' = "l47"
                    /\ UNCHANGED << exc, openFiles, exitCode >>
            /\ UNCHANGED trace
    /\ UNCHANGED << inputs, outFiles, args, params, yamls, fi, tests,
                    method_count, stdout, stderr, runs, history >>

\* lines 45-47: next (clazz, methods), class_count += 1, iter(methods); when
\* the items are exhausted the with-block of line 43 closes yamp_fp
NextClass ==
    /\ pc = "l45_next"
    /\ IF ci = Len(tests.items)
       THEN /\ openFiles' = SubSeq(openFiles, 1, Len(openFiles) - 1)
            /\ trace' = Append(trace, [op |-> "close", path |-> yamls[fi]])
            /\ pc' = "l42"
            /\ UNCHANGED << ci, mi, class_count, exc, exitCode >>
       ELSE /\ ci' = ci + 1
            /\ class_count' = class_count + 1
            /\ IF tests.items[ci + 1].v.t = "null"
               THEN /\ Raise("TypeError")
                    /\ UNCHANGED mi
               ELSE /\ mi' = 0
                    /\ pc' = "l47"
                    /\ UNCHANGED << exc, openFiles, exitCode >>
            /\ UNCHANGED trace
    /\ UNCHANGED << inputs, outFiles, args, params, yamls, fi, tests,
                    method_count, stdout, stderr, runs, history >>

\* lines 47-49: next method, method_count += 1, fp.write(...)
WriteMethod ==
    /\ pc = "l47"
    /\ LET clazz == tests.items[ci].k
           methods == Iterate(tests.items[ci].v)
       IN  IF mi = Len(methods)
           THEN /\ pc' = "l45_next"
                /\ UNCHANGED << mi, method_count, outFiles >>
           ELSE /\ mi' = mi + 1
                /\ method_count' = method_count + 1
                /\ outFiles' = [outFiles EXCEPT ![out_file] =
                                   Write(@, FormatLine(clazz, methods[mi + 1]))]
                /\ pc' = "l47"
    /\ UNCHANGED << inputs, args, params, yamls, fi, tests, ci, class_count,
                    openFiles, trace, stdout, stderr, exitCode, exc, runs,
                    history >>

\* line 51 and the return; a script then ends with status 0
Report ==
    /\ pc = "l51"
    /\ stderr' = Append(stderr, [msg |-> "Wrote",
                                 v |-> <<method_count, class_count, out_file>>])
    /\ history' = Append(history, outFiles[out_file].data)
    /\ IF entry = "cli"
       THEN /\ exitCode' = <<0>>
            /\ pc' = "exit"
       ELSE /\ pc' = "returned"
            /\ UNCHANGED exitCode
    /\ UNCHANGED << inputs, outFiles, args, params, yamls, cursor, counters,
                    openFiles, trace, stdout, exc, runs >>

\* the caller runs the function again with the same arguments
Rerun ==
    /\ pc = "returned"
    /\ runs < MaxRuns
    /\ runs' = runs + 1
    /\ pc' = "l33"
    /\ yamls' = << >>
    /\ fi' = 0
    /\ tests' = NoDoc
    /\ ci' = 0
    /\ mi' = 0
    /\ UNCHANGED << inputs, outFiles, args, params, counters, openFiles,
                    trace, stdout, stderr, exitCode, exc, history >>

Next ==
    \/ CheckEnv
    \/ ParseArgs
    \/ DefaultPath
    \/ ReadPathsAndCall
    \/ ExpandGlobs
    \/ OpenOutput
    \/ NextFile
    \/ Load
    \/ Items
    \/ NextClass
    \/ WriteMethod
    \/ Report
    \/ Rerun

Spec == Init /\ [][Next]_vars

(***************************************************************************)
(* What the documentation says, stated on the inputs alone                 *)
(***************************************************************************)
RECURSIVE Flat(_)
Flat(ss) == IF ss = << >> THEN << >> ELSE Head(ss) \o Flat(Tail(ss))

RECURSIVE Sum(_)
Sum(ns) == IF ns = << >> THEN 0 ELSE Head(ns) + Sum(Tail(ns))

IsPrefix(s, t) == Len(s) <= Len(t) /\ SubSeq(t, 1, Len(s)) = s

\* the files a pattern matches, in enumeration order
Matching(p) == SelectSeq(enum, LAMBDA f : p = DefaultPattern \/ p = f)

\* the resolved file list: pattern by pattern, a file once per match
Resolved == Flat([i \in 1..Len(glob_paths) |-> Matching(glob_paths[i])])

\* a catalog: a mapping from class names to sequences of method names
IsCatalog(d) ==
    /\ d.kind = "map"
    /\ \A j \in 1..Len(d.items) : d.items[j].v.t = "seq"

AllCatalogs == \A i \in 1..Len(Resolved) : IsCatalog(fs[Resolved[i]])

\* the (class, method) pairs of a catalog, in order
PairsOf(d) ==
    Flat([j \in 1..Len(d.items) |->
            [m \in 1..Len(d.items[j].v.elems) |->
                <<d.items[j].k, d.items[j].v.elems[m]>>]])

\* the text of a list of pairs: one newline-terminated line each
TextOf(pairs) ==
    Flat([i \in 1..Len(pairs) |-> pairs[i][1] \o <<"#">> \o pairs[i][2] \o <<"\n">>])

AllPairs == Flat([i \in 1..Len(Resolved) |-> PairsOf(fs[Resolved[i]])])

\* the lines of a text
RECURSIVE SplitLines(_)
SplitLines(s) ==
    IF s = << >> THEN << >>
    ELSE IF \A i \in 1..Len(s) : s[i] # "\n" THEN <<s>>
    ELSE LET n == CHOOSE i \in 1..Len(s) :
                     s[i] = "\n" /\ \A j \in 1..(i - 1) : s[j] # "\n"
         IN  <<SubSeq(s, 1, n - 1)>> \o SplitLines(SubSeq(s, n + 1, Len(s)))

NumLines(s) == Cardinality({i \in 1..Len(s) : s[i] = "\n"})

Count(x, seq) == Cardinality({i \in 1..Len(seq) : seq[i] = x})

Output == outFiles[out_file]
Succeeded == pc = "returned" \/ (pc = "exit" /\ exitCode = <<0>>)
Called == entry = "call"

(***************************************************************************)
(* C1: every run of the script with GITHUB_WORKSPACE set, a well-formed    *)
(* command line and only valid catalogs matched calls yaml_to_all_tests    *)
(* with the chosen patterns and output file and exits with status 0.       *)
(***************************************************************************)
CliPatterns == IF argv.paths = << >> THEN <<DefaultPattern>> ELSE argv.paths
CliResolved == Flat([i \in 1..Len(CliPatterns) |-> Matching(CliPatterns[i])])
CliOutput == IF argv.output.some THEN argv.output.val ELSE DefaultOutput

C1_ExitZero ==
    ( /\ entry = "cli"
      /\ env \notin {Unset, ""}
      /\ argv.valid
      /\ \A i \in 1..Len(CliResolved) : IsCatalog(fs[CliResolved[i]])
      /\ pc = "exit" )
    => /\ exitCode = <<0>>
       /\ glob_paths = CliPatterns
       /\ out_file = CliOutput
       /\ history # << >>

(***************************************************************************)
(* C2: after a successful run over valid catalogs the output file holds    *)
(* exactly the lines class#method, newline-terminated, pattern by pattern, *)
(* file by file, class by class, method by method; nothing else is written.*)
(***************************************************************************)
C2_ExactOutput ==
    (Called /\ Succeeded /\ AllCatalogs)
    => /\ Output = [exists |-> TRUE, data |-> TextOf(AllPairs)]
       /\ \A p \in OutPaths \ {out_file} : outFiles[p] = prior

C2_Witness ==
    /\ Called /\ Succeeded
    /\ Resolved = <<FileA>>
    /\ fs[FileA] = Map(<< Item(Foo, SeqV(<<a, b>>)) >>)
    /\ Output.data = <<"F", "o", "o", "#", "a", "\n", "F", "o", "o", "#", "b", "\n">>

(***************************************************************************)
(* C3: after a successful run over valid catalogs the number of lines in   *)
(* the output equals the sum, over the resolved files (each match counted),*)
(* of the numbers of method elements of all their classes.                 *)
(***************************************************************************)
NumMethods(d) == Sum([j \in 1..Len(d.items) |-> Len(d.items[j].v.elems)])

C3_LineCount ==
    (Called /\ Succeeded /\ AllCatalogs)
    => /\ NumLines(Output.data) =
            Sum([i \in 1..Len(Resolved) |-> NumMethods(fs[Resolved[i]])])
       /\ Len(SplitLines(Output.data)) = NumLines(Output.data)

C3_Witness ==
    /\ Called /\ Succeeded /\ AllCatalogs
    /\ Len(Resolved) = 3
    /\ NumLines(Output.data) = 6

\* the run has opened (and so truncated) its output file
Opened == pc \in {"l42", "l44", "l45", "l45_next", "l47", "l51", "returned", "raised"}

Last(seq) == seq[Len(seq)]

(***************************************************************************)
(* C4: a matched file that is unreadable, not YAML, or not a mapping from  *)
(* strings to sequences of strings makes the run abort: it never succeeds  *)
(* and no line derived from an ill-shaped value is written.                *)
(***************************************************************************)
C4_IllShapedAborts ==
    (Called /\ ~AllCatalogs)
    => /\ ~Succeeded
       /\ Opened => IsPrefix(Output.data, TextOf(AllPairs))

(***************************************************************************)
(* C5: with GITHUB_WORKSPACE absent or empty the script prints its message *)
(* and exits with status 1 before it parses arguments, expands a pattern,  *)
(* opens an input or touches the output file.                              *)
(***************************************************************************)
C5_EnvGuard ==
    (entry = "cli" /\ env \in {Unset, ""})
    => /\ pc \in {"l67", "exit"}
       /\ args = NoArgs
       /\ trace = << >>
       /\ outFiles = [p \in OutPaths |-> prior]
       /\ stderr = << >>
       /\ pc = "exit" =>
            /\ exitCode = <<1>>
            /\ stdout = <<"This script is intended to by run by GitHub Actions.">>

C5_Witness ==
    /\ entry = "cli" /\ env = "" /\ pc = "exit" /\ exitCode = <<1>>
    /\ prior.exists /\ argv.paths # << >>

(***************************************************************************)
(* C6: nothing is deduplicated: a file is opened once per match, and a     *)
(* (class, method) pair occurring k times over the resolved files is k     *)
(* times in the output.                                                    *)
(***************************************************************************)
C6_NoDedup ==
    (Called /\ Succeeded)
    => /\ \A f \in Files :
            Count([op |-> "open_r", path |-> f], trace) = runs * Count(f, Resolved)
       /\ AllCatalogs =>
            \A c \in {Foo, Bar}, m \in {a, b} :
                Count(c \o <<"#">> \o m, SplitLines(Output.data))
                    = Count(<<c, m>>, AllPairs)

C6_Witness ==
    /\ Called /\ Succeeded /\ runs = 1
    /\ glob_paths = <<DefaultPattern, FileA>>
    /\ fs[FileA] = Map(<< Item(Foo, SeqV(<<a>>)) >>)
    /\ fs[FileB] = Map(<< Item(Foo, SeqV(<<a>>)) >>)
    /\ Count(<<"F", "o", "o", "#", "a">>, SplitLines(Output.data)) = 3

(***************************************************************************)
(* C7: when the patterns match no file the function does not fail: it      *)
(* runs to its end, the output file exists and is empty, and both counters *)
(* are 0.                                                                  *)
(***************************************************************************)
C7_ZeroFiles ==
    (Called /\ Resolved = << >>)
    => /\ exc = "" /\ pc # "raised"
       /\ pc # "returned" => ENABLED Next
       /\ pc # "l33" => yamls = << >> /\ class_count = 0 /\ method_count = 0
       /\ Opened => Output = [exists |-> TRUE, data |-> << >>]
       /\ pc = "returned" =>
            Last(stderr) = [msg |-> "Wrote", v |-> <<0, 0, out_file>>]

C7_Witness ==
    /\ Called /\ Resolved = << >> /\ pc = "returned"
    /\ prior.exists /\ prior.data # << >>
    /\ Output.exists /\ Output.data = << >>

(***************************************************************************)
(* C8: a second run with the same arguments on the same files leaves the   *)
(* output as the first run left it, and nothing of what the file held      *)
(* before a run is left after it.                                          *)
(***************************************************************************)
C8_Idempotent ==
    /\ \A i \in 1..Len(history) : history[i] = history[1]
    /\ (Called /\ Succeeded) =>
            /\ Output.data = Last(history)
            /\ Count(<<"X", "#", "y">>, SplitLines(Output.data)) = 0

C8_Witness ==
    /\ Called /\ Succeeded /\ runs = 2 /\ Len(history) = 2
    /\ prior.exists /\ history[1] # << >>

(***************************************************************************)
(* C9: method_count is the number of lines written so far, class_count the *)
(* number of class keys entered so far (once per key per file, empty       *)
(* classes included), and these totals are what is reported.               *)
(***************************************************************************)
NumClasses(n) == Sum([i \in 1..n |-> Len(fs[Resolved[i]].items)])

ClassesEntered ==
    CASE pc = "l42" -> NumClasses(fi)
      [] pc \in {"l44", "l45"} -> NumClasses(fi - 1)
      [] pc \in {"l45_next", "l47"} -> NumClasses(fi - 1) + ci
      [] pc \in {"l51", "returned"} -> NumClasses(Len(Resolved))
      [] pc = "raised" -> NumClasses(fi - 1) + (IF exc = "TypeError" THEN ci ELSE 0)

C9_Counters ==
    /\ (Called /\ pc = "l41") => method_count = 0 /\ class_count = 0
    /\ (Called /\ Opened)
       =>
       /\ method_count = NumLines(Output.data)
       /\ class_count = ClassesEntered
       /\ pc = "returned" =>
            Last(stderr) = [msg |-> "Wrote",
                            v |-> <<NumLines(Output.data),
                                    NumClasses(Len(Resolved)), out_file>>]

C9_Witness ==
    /\ Called /\ pc = "returned"
    /\ glob_paths = <<DefaultPattern>>
    /\ fs[FileA] = Map(<< Item(Bar, SeqV(<< >>)), Item(Foo, SeqV(<<a, a>>)) >>)
    /\ fs[FileB] = fs[FileA]
    /\ class_count = 4 /\ method_count = 4

(***************************************************************************)
(* C10: the output is truncated before any input is opened, inputs are     *)
(* open one at a time, what is written is always a prefix of the           *)
(* flattening up to the point of failure (all of it once the run has       *)
(* ended), and no line is ever removed or rewritten.                       *)
(***************************************************************************)
ItemFails(it) == it.v.t = "null"

ItemRecords(it) ==
    IF it.v.t = "seq" THEN [m \in 1..Len(it.v.elems) |-> <<it.k, it.v.elems[m]>>]
    ELSE IF it.v.t = "str" THEN [m \in 1..Len(it.v.chars) |-> <<it.k, <<it.v.chars[m]>>>>]
    ELSE << >>

FirstOf(S, dflt) == IF S = {} THEN dflt ELSE CHOOSE x \in S : \A y \in S : x <= y

DocFails(d) == d.kind # "map" \/ \E j \in 1..Len(d.items) : ItemFails(d.items[j])

DocRecords(d) ==
    LET n == FirstOf({j \in 1..Len(d.items) : ItemFails(d.items[j])}, Len(d.items) + 1)
    IN  Flat([j \in 1..(n - 1) |-> ItemRecords(d.items[j])])

RunRecords ==
    LET n == FirstOf({i \in 1..Len(Resolved) : DocFails(fs[Resolved[i]])}, Len(Resolved))
    IN  Flat([i \in 1..n |-> DocRecords(fs[Resolved[i]])])

C10_State ==
    /\ Len(openFiles) <= 2
    /\ openFiles # << >> => openFiles[1] = out_file
    /\ Len(openFiles) = 2 => openFiles[2] = Resolved[fi]
    /\ (Called /\ Opened) =>
         /\ IsPrefix(Output.data, TextOf(RunRecords))
         /\ pc \in {"raised", "l51", "returned"} => Output.data = TextOf(RunRecords)

\* the step opens an input file
OpensInput == Len(trace') = Len(trace) + 1 /\ Last(trace').op = "open_r"

C10_Step ==
    /\ OpensInput => /\ openFiles = <<out_file>>
                     /\ fi' = 1 => Output = [exists |-> TRUE, data |-> << >>]
    /\ (Opened /\ Opened') => IsPrefix(Output.data, Output.data')

C10_Prefix == []C10_State /\ [][C10_Step]_vars

C10_Witness ==
    /\ Called /\ pc = "raised" /\ exc = "TypeError" /\ fi = 2
    /\ fs[Resolved[1]] = Map(<< Item(Foo, SeqV(<<a, b>>)) >>)
    /\ Output.data = <<"F", "o", "o", "#", "a", "\n", "F", "o", "o", "#", "b", "\n",
                       "F", "o", "o", "#", "a", "\n">>

=============================================================================
